---- MODULE Spec2Model ----
(***************************************************************************)
(* Ultimate Tic-Tac-Toe rules engine (src/src/utttrlsim/board.py).         *)
(*                                                                         *)
(* A Position is modelled by its global id (Position.__eq__ and __hash__   *)
(* use only _id).  A board object is a record with the three fields of     *)
(* UltimateTicTacToeBoard: board (the 9x9 numpy array, indexed [y][x]),    *)
(* current_player and last_move.  Which ndarray object a board's _board    *)
(* attribute refers to is kept apart (arrays), since make_move and reset   *)
(* write that object in place.                                             *)
(***************************************************************************)
EXTENDS Integers, Sequences, FiniteSets, TLC

\* ---------------------------------------------------------------- Player
EMPTY == 0
X == 1
O == 2

\* Optional[Position]: the absent last move
None == 0 - 1

\* ---------------------------------------------------------------- bounds
\* number of mutating calls (successful make_move, reset, copy) explored
\* after the initial state
MaxSteps == 1
\* the initial states are the positions of the recorded games after every
\* SeedEvery-th move, and their last two positions
SeedEvery == 4
\* how far beyond each end of a valid range the arguments of Position and
\* the actions of step are drawn
MaxOutOfRange == 1

\* ---------------------------------------------------------------- Position
PositionIds == 0 .. 80

\* mutant: the grid and cell coordinates change places
PositionFromGrid_cell_major(grid_x, grid_y, cell_x, cell_y) ==
    (cell_x * 3 + grid_x) + (cell_y * 3 + grid_y) * 9

\* Position(grid_x, grid_y, cell_x, cell_y)
PositionFromGrid(grid_x, grid_y, cell_x, cell_y) ==
    (grid_x * 3 + cell_x) + (grid_y * 3 + cell_y) * 9

board_x(p) == p % 9
board_y(p) == p \div 9
sub_grid_x(p) == board_x(p) \div 3
sub_grid_y(p) == board_y(p) \div 3
cell_x(p) == board_x(p) % 3
cell_y(p) == board_y(p) % 3

\* mutant: the sub-grids are numbered column by column
sub_grid_id_column_major(p) == sub_grid_x(p) * 3 + sub_grid_y(p)

sub_grid_id(p) == sub_grid_x(p) + sub_grid_y(p) * 3
cell_id(p) == cell_x(p) + cell_y(p) * 3

\* board_id: the Position is modelled by its _id
board_id(p) == p

\* mutant: only the upper end of each range is asserted
Position_init_raises_upper_end_only(args) ==
    IF Len(args) = 1
    THEN (IF args[1] < 81 THEN "none" ELSE "AssertionError")
    ELSE IF Len(args) = 4
    THEN (IF \A k \in 1 .. 4 : args[k] < 3 THEN "none" ELSE "AssertionError")
    ELSE "ValueError"

\* Position(*args): the exception the constructor raises, or "none"
Position_init_raises(args) ==
    IF Len(args) = 1
    THEN (IF 0 <= args[1] /\ args[1] < 81 THEN "none" ELSE "AssertionError")
    ELSE IF Len(args) = 4
    THEN (IF \A k \in 1 .. 4 : 0 <= args[k] /\ args[k] < 3
          THEN "none" ELSE "AssertionError")
    ELSE "ValueError"

\* Position(*args): the _id the constructor assigns when it does not raise
Position_init(args) ==
    IF Len(args) = 1 THEN args[1]
    ELSE PositionFromGrid(args[1], args[2], args[3], args[4])

\* ---------------------------------------------------------------- queries
\* self._board[start_y : start_y + 3, start_x : start_x + 3]
sub_board_data(board, grid_x, grid_y) ==
    [r \in 0 .. 2 |-> [c \in 0 .. 2 |-> board[grid_y * 3 + r][grid_x * 3 + c]]]

\* mutant: the second diagonal is taken without np.fliplr
check_win_pattern_for_player_no_fliplr(board_slice, player) ==
    \/ \E row \in 0 .. 2 : \A c \in 0 .. 2 : board_slice[row][c] = player
    \/ \E col \in 0 .. 2 : \A r \in 0 .. 2 : board_slice[r][col] = player
    \/ \A i \in 0 .. 2 : board_slice[i][i] = player

check_win_pattern_for_player(board_slice, player) ==
    \/ \E row \in 0 .. 2 : \A c \in 0 .. 2 : board_slice[row][c] = player
    \/ \E col \in 0 .. 2 : \A r \in 0 .. 2 : board_slice[r][col] = player
    \/ \A i \in 0 .. 2 : board_slice[i][i] = player
    \/ \A i \in 0 .. 2 : board_slice[i][2 - i] = player

\* the entry result[grid_y, grid_x] that subboard_winner computes
sub_board_result(board, grid_x, grid_y) ==
    LET data == sub_board_data(board, grid_x, grid_y)
    IN  IF check_win_pattern_for_player(data, X) THEN X
        ELSE IF check_win_pattern_for_player(data, O) THEN O
        ELSE EMPTY

\* the 3x3 array subboard_winner returns, indexed [grid_y][grid_x]
subboard_winner(board) ==
    [grid_y \in 0 .. 2 |-> [grid_x \in 0 .. 2 |->
        sub_board_result(board, grid_x, grid_y)]]

is_sub_board_full(board, grid_x, grid_y) ==
    LET data == sub_board_data(board, grid_x, grid_y)
    IN  ~ \E r \in 0 .. 2, c \in 0 .. 2 : data[r][c] = EMPTY

\* mutant: the draw test asks _is_sub_board_full(i, j) for entry [i, j]
game_over_transposed(b) ==
    LET sw == subboard_winner(b.board)
    IN  IF \E player \in {X, O} : check_win_pattern_for_player(sw, player)
        THEN TRUE
        ELSE ~ \E i \in 0 .. 2, j \in 0 .. 2 :
                  sw[i][j] = EMPTY /\ ~ is_sub_board_full(b.board, i, j)

game_over(b) ==
    LET sw == subboard_winner(b.board)
    IN  IF \E player \in {X, O} : check_win_pattern_for_player(sw, player)
        THEN TRUE
        ELSE ~ \E i \in 0 .. 2, j \in 0 .. 2 :
                  sw[i][j] = EMPTY /\ ~ is_sub_board_full(b.board, j, i)

\* mutant: the player who moved last is reported as the winner
winner_is_last_mover(b) ==
    LET sw == subboard_winner(b.board)
    IN  IF ~ game_over(b) THEN EMPTY
        ELSE IF \E player \in {X, O} : check_win_pattern_for_player(sw, player)
        THEN (IF b.current_player = X THEN O ELSE X)
        ELSE EMPTY

\* mutant: the meta-board is searched for O before X
winner_o_first(b) ==
    LET sw == subboard_winner(b.board)
    IN  IF ~ game_over(b) THEN EMPTY
        ELSE IF check_win_pattern_for_player(sw, O) THEN O
        ELSE IF check_win_pattern_for_player(sw, X) THEN X
        ELSE EMPTY

winner(b) ==
    LET sw == subboard_winner(b.board)
    IN  IF ~ game_over(b) THEN EMPTY
        ELSE IF check_win_pattern_for_player(sw, X) THEN X
        ELSE IF check_win_pattern_for_player(sw, O) THEN O
        ELSE EMPTY

\* np.all(self._board == 0)
board_all_empty(board) ==
    \A y \in 0 .. 8, x \in 0 .. 8 : board[y][x] = EMPTY

\* mutant: the cells of the sub-board are not tested for Empty
empty_cells_of_unfiltered(board, grid_x, grid_y) ==
    { PositionFromGrid(grid_x, grid_y, id % 3, id \div 3) :
        id \in 0 .. 8 }

\* the empty cells of one sub-board, as Positions built from grid coordinates
\* (id is the loop variable cell_id of the source)
empty_cells_of(board, grid_x, grid_y) ==
    { PositionFromGrid(grid_x, grid_y, id % 3, id \div 3) :
        id \in { k \in 0 .. 8 :
            LET cell == PositionFromGrid(grid_x, grid_y, k % 3, k \div 3)
            IN  board[board_y(cell)][board_x(cell)] = EMPTY } }

\* the assertion of the first-move branch of get_legal_moves fails
get_legal_moves_asserts(b) ==
    b.last_move = None /\ ~ board_all_empty(b.board)

\* mutant: the target is read as (cell_y, cell_x)
target_sub_grid_transposed(last_move) ==
    << cell_y(last_move), cell_x(last_move) >>

\* mutant: the target is the sub-board the last move was played in
target_sub_grid_of_sub_grid(last_move) ==
    << sub_grid_x(last_move), sub_grid_y(last_move) >>

\* the sub-board the last move sends to: (target_sub_grid_x, target_sub_grid_y)
target_sub_grid(last_move) ==
    << cell_x(last_move), cell_y(last_move) >>

\* mutant: a full target sub-board that nobody won counts as available
target_sub_board_available_unless_won(board, target_sub_grid_x, target_sub_grid_y) ==
    subboard_winner(board)[target_sub_grid_y][target_sub_grid_x] = EMPTY

\* mutant: a won target sub-board with Empty cells counts as available
target_sub_board_available_unless_full(board, target_sub_grid_x, target_sub_grid_y) ==
    ~ is_sub_board_full(board, target_sub_grid_x, target_sub_grid_y)

\* the target sub-board is not won and not full
target_sub_board_available(board, target_sub_grid_x, target_sub_grid_y) ==
    /\ subboard_winner(board)[target_sub_grid_y][target_sub_grid_x] = EMPTY
    /\ ~ is_sub_board_full(board, target_sub_grid_x, target_sub_grid_y)

\* mutant: the free-move loop skips what X won and what is full
skip_sub_board_won_by_x(board, grid_x, grid_y) ==
    \/ subboard_winner(board)[grid_y][grid_x] = X
    \/ is_sub_board_full(board, grid_x, grid_y)

\* mutant: the free-move loop skips no sub-board
skip_sub_board_never(board, grid_x, grid_y) == FALSE

\* mutant: the free-move loop reads subboard_winner[sub_grid_x, sub_grid_y]
skip_sub_board_transposed(board, grid_x, grid_y) ==
    \/ subboard_winner(board)[grid_x][grid_y] # EMPTY
    \/ is_sub_board_full(board, grid_x, grid_y)

\* mutant: the free-move loop skips only the full sub-boards
skip_sub_board_if_full(board, grid_x, grid_y) ==
    is_sub_board_full(board, grid_x, grid_y)

\* the free-move loop skips the sub-boards that are won or full
skip_sub_board(board, grid_x, grid_y) ==
    \/ subboard_winner(board)[grid_y][grid_x] # EMPTY
    \/ is_sub_board_full(board, grid_x, grid_y)

\* the set of Positions get_legal_moves returns (when its assertion holds)
get_legal_moves(b) ==
    IF b.last_move = None
    THEN PositionIds
    ELSE IF target_sub_board_available(b.board, target_sub_grid(b.last_move)[1],
                                       target_sub_grid(b.last_move)[2])
    THEN empty_cells_of(b.board, target_sub_grid(b.last_move)[1],
                        target_sub_grid(b.last_move)[2])
    ELSE UNION { empty_cells_of(b.board, g[1], g[2]) :
                   g \in { h \in (0 .. 2) \X (0 .. 2) :
                             ~ skip_sub_board(b.board, h[1], h[2]) } }

\* ---------------------------------------------------------------- mutation
\* UltimateTicTacToeBoard(board, current_player, last_move): the arguments
\* are stored as they are given
NewBoardFrom(board, current_player, last_move) ==
    [ board |-> board,
      current_player |-> current_player,
      last_move |-> last_move ]

\* UltimateTicTacToeBoard()
NewBoard ==
    [ board |-> [y \in 0 .. 8 |-> [x \in 0 .. 8 |-> EMPTY]],
      current_player |-> X,
      last_move |-> None ]

\* mutant: the legality check comes before the game-over check
make_move_raises_legality_first(over, asserts, legal_moves, position) ==
    IF asserts THEN "AssertionError"
    ELSE IF position \notin legal_moves THEN "ValueError"
    ELSE IF over THEN "RuntimeError"
    ELSE "none"

\* the validation of make_move: the exception it raises before it writes
\* anything, given what game_over and get_legal_moves answer on the board
make_move_raises(over, asserts, legal_moves, position) ==
    IF over THEN "RuntimeError"
    ELSE IF asserts THEN "AssertionError"
    ELSE IF position \notin legal_moves THEN "ValueError"
    ELSE "none"

\* mutant: the mark is written at [board_x, board_y]
make_move_writes_transposed(b, position) ==
    [ board |-> [b.board EXCEPT ![board_x(position)][board_y(position)]
                                  = b.current_player],
      current_player |-> IF b.current_player = X THEN O ELSE X,
      last_move |-> position ]

\* mutant: the players are switched before the mark is written
make_move_writes_switch_first(b, position) ==
    [ board |-> [b.board EXCEPT ![board_y(position)][board_x(position)]
                                  = IF b.current_player = X THEN O ELSE X],
      current_player |-> IF b.current_player = X THEN O ELSE X,
      last_move |-> position ]

\* mutant: the players are not switched
make_move_writes_same_player(b, position) ==
    [ board |-> [b.board EXCEPT ![board_y(position)][board_x(position)]
                                  = b.current_player],
      current_player |-> b.current_player,
      last_move |-> position ]

\* the writes of make_move once the move is validated
make_move_writes(b, position) ==
    [ board |-> [b.board EXCEPT ![board_y(position)][board_x(position)]
                                  = b.current_player],
      current_player |-> IF b.current_player = X THEN O ELSE X,
      last_move |-> position ]

\* mutant: the mark is written before the move is validated
make_move_state_writes_first(b, position, e) ==
    IF e \in {"none", "ValueError"}
    THEN [ board |-> [b.board EXCEPT ![board_y(position)][board_x(position)]
                                       = b.current_player],
           current_player |-> IF e = "none" THEN (IF b.current_player = X THEN O ELSE X)
                              ELSE b.current_player,
           last_move |-> IF e = "none" THEN position ELSE b.last_move ]
    ELSE b

\* the board after a make_move call that raised e: an exception leaves
\* make_move before its first write
make_move_state(b, position, e) ==
    IF e = "none" THEN make_move_writes(b, position) ELSE b

\* make_move(position): the board afterwards and the exception raised
make_move(b, position) ==
    LET e == make_move_raises(game_over(b), get_legal_moves_asserts(b),
                              get_legal_moves(b), position)
    IN  [state |-> make_move_state(b, position, e), raised |-> e]

\* mutant: reset does not clear the array
reset_keeps_grid(b, current_player) ==
    [ board |-> b.board,
      current_player |-> X,
      last_move |-> None ]

\* mutant: reset starts with the player it is given
reset_with_player(b, current_player) ==
    [ board |-> [y \in 0 .. 8 |-> [x \in 0 .. 8 |-> EMPTY]],
      current_player |-> current_player,
      last_move |-> None ]

\* mutant: reset does not clear last_move
reset_keeps_last_move(b, current_player) ==
    [ board |-> [y \in 0 .. 8 |-> [x \in 0 .. 8 |-> EMPTY]],
      current_player |-> X,
      last_move |-> b.last_move ]

\* reset(current_player): the argument is not used by the body
reset(b, current_player) ==
    [ board |-> [y \in 0 .. 8 |-> [x \in 0 .. 8 |-> EMPTY]],
      current_player |-> X,
      last_move |-> None ]

\* mutant: the copy keeps a reference to the array of the original
copy_array_shared(array, fresh) == array

\* self._board.copy(): numpy allocates a fresh array
copy_array(array, fresh) == fresh

\* the queries (subboard_winner, game_over, winner, get_legal_moves, render)
\* assign no attribute of self and no element of self._board
query_state(b, name) == b

\* mutant: the copy does not take over last_move
copy_forgets_last_move(b) ==
    [ board |-> b.board,
      current_player |-> b.current_player,
      last_move |-> None ]

\* copy()
copy(b) ==
    [ board |-> b.board,
      current_player |-> b.current_player,
      last_move |-> b.last_move ]

\* ---------------------------------------------------------------- render
\* Text is a sequence of one-character strings.

\* mutant: the cell is read with rows and columns exchanged
render_position_transposed(meta_col, meta_row, sub_col, sub_row) ==
    PositionFromGrid(meta_row, meta_col, sub_row, sub_col)

\* render: pos = Position(meta_col, meta_row, sub_col, sub_row)
render_position(meta_col, meta_row, sub_col, sub_row) ==
    PositionFromGrid(meta_col, meta_row, sub_col, sub_row)

\* render: what one pass of the sub_col loop appends to the line
render_cell(b, meta_col, meta_row, sub_col, sub_row) ==
    LET pos == render_position(meta_col, meta_row, sub_col, sub_row)
        cell == b.board[board_y(pos)][board_x(pos)]
    IN  << IF cell = EMPTY THEN "." ELSE IF cell = X THEN "X" ELSE "O" >>
        \o (IF sub_col < 2 THEN << " " >> ELSE << >>)

\* render: what one pass of the meta_col loop appends to the line
render_sub_row(b, meta_col, meta_row, sub_row) ==
    render_cell(b, meta_col, meta_row, 0, sub_row)
    \o render_cell(b, meta_col, meta_row, 1, sub_row)
    \o render_cell(b, meta_col, meta_row, 2, sub_row)
    \o (IF meta_col < 2 THEN << " ", "|", " " >> ELSE << >>)

\* render: the line of one pass of the sub_row loop
render_line(b, meta_row, sub_row) ==
    render_sub_row(b, 0, meta_row, sub_row)
    \o render_sub_row(b, 1, meta_row, sub_row)
    \o render_sub_row(b, 2, meta_row, sub_row)

\* render: what one pass of the meta_row loop appends to result
render_meta_row(b, meta_row) ==
    << render_line(b, meta_row, 0), render_line(b, meta_row, 1),
       render_line(b, meta_row, 2) >>
    \o (IF meta_row < 2 THEN << [i \in 1 .. 23 |-> "-"] >> ELSE << >>)

\* "\n".join(result)
RECURSIVE join(_)
join(result) ==
    IF Len(result) = 0 THEN << >>
    ELSE IF Len(result) = 1 THEN result[1]
    ELSE result[1] \o << "\n" >> \o join(Tail(result))

\* render()
render(b) ==
    join(render_meta_row(b, 0) \o render_meta_row(b, 1) \o render_meta_row(b, 2))

\* ---------------------------------------------------------------- environment
\* UltimateTicTacToeEnv holds one board; the operators below take it as b.

\* the board property: a tuple of the occupied cells as (Position, Player)
\* pairs; no caller reads it, and its order is left out
board_property(b) ==
    { << position, b.board[board_y(position)][board_x(position)] >> :
        position \in { p \in PositionIds : b.board[board_y(p)][board_x(p)] # EMPTY } }

\* the methods of Python's tuple type
TupleMethods == {"count", "index"}

\* _get_observation(): the dict display evaluates its entries in order, and
\* the first one looks up copy on the tuple that the board property returns
get_observation_raises ==
    IF "copy" \in TupleMethods THEN "none" ELSE "AttributeError"

\* mutant: the mask is indexed by sub-board and cell number
action_mask_of_sub_board_major(legal_moves) ==
    [ i \in 0 .. 80 |->
        IF \E position \in legal_moves :
              sub_grid_id(position) * 9 + cell_id(position) = i
        THEN 1 ELSE 0 ]

\* _get_action_mask(): zeros(81) with a 1 at the board_id of each of
\* legal_moves
action_mask_of(legal_moves) ==
    [ i \in 0 .. 80 |->
        IF \E position \in legal_moves : board_id(position) = i
        THEN 1 ELSE 0 ]

\* _get_action_mask()
get_action_mask(b) == action_mask_of(get_legal_moves(b))

\* _get_observation() when it does not raise
get_observation(b) ==
    [ board |-> board_property(b), action_mask |-> get_action_mask(b) ]

\* _get_info()
get_info(b) ==
    [ meta_board |-> subboard_winner(b.board),
      current_player |-> b.current_player,
      legal_moves |-> get_legal_moves(b),
      game_over |-> game_over(b),
      winner |-> IF winner(b) # EMPTY THEN winner(b) ELSE None,
      last_move |-> b.last_move ]

\* mutant: the reward is computed for X whoever made the move
calculate_reward_for_x(b, current_player) ==
    IF ~ game_over(b) THEN 0
    ELSE IF winner(b) = EMPTY THEN 0
    ELSE IF winner(b) = X THEN 1
    ELSE 0 - 1

\* _calculate_reward(current_player): 1.0, 0.0 and -1.0 as integers
calculate_reward(b, current_player) ==
    IF ~ game_over(b) THEN 0
    ELSE IF winner(b) = EMPTY THEN 0
    ELSE IF winner(b) = current_player THEN 1
    ELSE 0 - 1

\* step(action): the exception raised, or "none".  Position(action) and
\* make_move raise before the board is written, _get_observation after.
env_step_raises(over, asserts, legal_moves, action) ==
    IF Position_init_raises(<< action >>) # "none"
    THEN Position_init_raises(<< action >>)
    ELSE IF make_move_raises(over, asserts, legal_moves,
                             Position_init(<< action >>)) # "none"
    THEN make_move_raises(over, asserts, legal_moves, Position_init(<< action >>))
    ELSE get_observation_raises

\* step(action): the board after a call that raised e
env_step_state(b, action, e) ==
    IF e \in {"none", "AttributeError"}
    THEN make_move_state(b, Position_init(<< action >>), "none")
    ELSE b

\* step(action): what a call that raised e returns, as a tuple of one
\* record, and the empty tuple when nothing is returned; after is the
\* board after make_move, current_player the player read before it
env_step_returned(after, current_player, e) ==
    IF e # "none" THEN << >>
    ELSE << [ observation |-> get_observation(after),
              reward |-> calculate_reward(after, current_player),
              terminated |-> game_over(after),
              truncated |-> FALSE,
              info |-> get_info(after) ] >>

\* reset(): the board afterwards, the exception raised and what is
\* returned; player is the value drawn from np_random
env_reset(b, player) ==
    [ state |-> reset(b, player),
      raised |-> get_observation_raises,
      returned |-> IF get_observation_raises # "none" THEN << >>
                   ELSE << [ observation |-> get_observation(reset(b, player)),
                             info |-> get_info(reset(b, player)) ] >> ]

\* ---------------------------------------------------------------- recorded games
\* three complete games (every move legal when it is played): X wins,
\* O wins, and a draw that contains a full sub-board nobody won; and the
\* start of a game whose last move sends to a full sub-board nobody won
GameXWins ==
    << 41, 53, 60, 10, 32, 15, 37, 30, 9, 27, 18, 63, 45, 54, 20, 78, 74, 70,
       39, 36, 29, 6, 2, 24, 55, 21, 73, 66, 19, 75, 72 >>
GameOWins ==
    << 22, 76, 68, 44, 53, 79, 75, 56, 7, 13, 31, 12, 29, 16, 32, 8, 17, 52,
       77, 61, 21, 64, 50, 60, 19, 67, 49, 58, 14, 35, 25, 72, 20, 70 >>
GameDraw ==
    << 48, 64, 39, 29, 24, 73, 59, 16, 32, 7, 5, 25, 75, 74, 78, 55, 14, 42,
       46, 58, 23, 80, 60, 9, 28, 10, 40, 45, 47, 71, 33, 20, 61, 44, 51, 57,
       19, 67, 69, 37, 18, 43, 66, 76, 11, 1, 0, 2 >>
GameFullTarget ==
    << 30, 10, 48, 64, 41, 43, 31, 13, 40, 50, 70, 39, 37, 32, 16, 49, 67 >>
Games == << GameXWins, GameOWins, GameDraw, GameFullTarget >>

\* the board a game shows after its first k moves: move i (1-based) is X's
\* when i is odd, since a new board starts with X
Recorded(game, k) ==
    [ board |-> [y \in 0 .. 8 |-> [x \in 0 .. 8 |->
                    IF \E i \in 1 .. k : game[i] = x + y * 9
                    THEN LET i == CHOOSE j \in 1 .. k : game[j] = x + y * 9
                         IN  IF i % 2 = 1 THEN X ELSE O
                    ELSE EMPTY]],
      current_player |-> IF k % 2 = 0 THEN X ELSE O,
      last_move |-> IF k = 0 THEN None ELSE game[k] ]

\* make_move replays the first k moves of the game without raising, so
\* Recorded(game, k) is a state the program reaches from a new board
Replayable(game, k) ==
    /\ Recorded(game, 0) = NewBoard
    /\ \A j \in 0 .. k - 1 :
          make_move(Recorded(game, j), game[j + 1])
              = [state |-> Recorded(game, j + 1), raised |-> "none"]

Cuts(game) ==
    { k \in 0 .. Len(game) : k % SeedEvery = 0 \/ k >= Len(game) - 1 }

\* ---------------------------------------------------------------- state
VARIABLES
    boards,   \* the live board objects: "orig", and "clone" once copy() ran
    moves,    \* per object: successful make_move calls since creation / reset
    call,     \* the latest call: [op, id]
    raised,   \* the exception the latest call raised, or "none"
    steps,    \* mutating calls made since the initial state
    arrays,   \* per object: the ndarray object its _board attribute refers to
    history   \* per object: the moves make_move accepted since creation / reset

vars == << boards, moves, call, raised, steps, arrays, history >>

BoardIds == {"orig", "clone"}

Init ==
    /\ \E g \in 1 .. Len(Games) : \E k \in Cuts(Games[g]) :
          /\ Replayable(Games[g], k)
          /\ boards = [id \in {"orig"} |-> Recorded(Games[g], k)]
          /\ moves = [id \in {"orig"} |-> k]
          /\ history = [id \in {"orig"} |-> SubSeq(Games[g], 1, k)]
    /\ call = [op |-> "init", id |-> "orig"]
    /\ raised = "none"
    /\ steps = 0
    /\ arrays = [id \in {"orig"} |-> "orig"]

\* the live objects after object id was left in state b: its attributes
\* are rebound, and the cells written into its array show in every object
\* whose _board is that same array
written(id, b) ==
    [ i \in DOMAIN boards |->
        IF i = id THEN b
        ELSE IF arrays[i] = arrays[id] THEN [boards[i] EXCEPT !.board = b.board]
        ELSE boards[i] ]

\* the exceptions make_move raises
Exceptions == {"RuntimeError", "AssertionError", "ValueError"}

\* boards[id].make_move(Position(p)) for some p in 0..80.  The answers of
\* game_over and get_legal_moves are taken once per call.  The calls that
\* raise the same exception are one step: the position attempted is not
\* part of the state.
MakeMove(id) ==
    /\ id \in DOMAIN boards
    /\ \E over \in {game_over(boards[id])},
          asserts \in {get_legal_moves_asserts(boards[id])},
          legal_moves \in {get_legal_moves(boards[id])} :
          \/ \E p \in PositionIds :
                /\ make_move_raises(over, asserts, legal_moves, p) = "none"
                /\ steps < MaxSteps
                /\ boards' = written(id, make_move_state(boards[id], p, "none"))
                /\ raised' = "none"
                /\ moves' = [moves EXCEPT ![id] = @ + 1]
                /\ history' = [history EXCEPT ![id] = Append(@, p)]
                /\ steps' = steps + 1
          \/ \E e \in Exceptions \cap
                       { make_move_raises(over, asserts, legal_moves, p) :
                           p \in PositionIds } :
                /\ boards' = written(id, make_move_state(boards[id],
                                    CHOOSE p \in PositionIds :
                                      make_move_raises(over, asserts, legal_moves, p) = e,
                                    e))
                /\ raised' = e
                /\ UNCHANGED << moves, steps, history >>
    /\ call' = [op |-> "make_move", id |-> id]
    /\ UNCHANGED arrays

\* boards[id].reset(current_player)
Reset(id, current_player) ==
    /\ steps < MaxSteps
    /\ id \in DOMAIN boards
    /\ boards' = written(id, reset(boards[id], current_player))
    /\ moves' = [moves EXCEPT ![id] = 0]
    /\ history' = [history EXCEPT ![id] = << >>]
    /\ call' = [op |-> "reset", id |-> id]
    /\ raised' = "none"
    /\ steps' = steps + 1
    /\ UNCHANGED arrays

\* clone = boards["orig"].copy(): what the call does to the objects
CopyObject ==
    /\ "clone" \notin DOMAIN boards
    /\ boards' = [id \in DOMAIN boards \cup {"clone"} |->
                    IF id = "clone" THEN copy(boards["orig"]) ELSE boards[id]]
    /\ moves' = [id \in DOMAIN boards \cup {"clone"} |->
                   IF id = "clone" THEN moves["orig"] ELSE moves[id]]
    /\ history' = [id \in DOMAIN boards \cup {"clone"} |->
                     IF id = "clone" THEN history["orig"] ELSE history[id]]
    /\ arrays' = [id \in DOMAIN boards \cup {"clone"} |->
                    IF id = "clone" THEN copy_array(arrays["orig"], "clone")
                    ELSE arrays[id]]
    /\ call' = [op |-> "copy", id |-> "orig"]
    /\ raised' = "none"

\* one clone is made in a run; the call counts as a step
Copy ==
    /\ steps < MaxSteps
    /\ CopyObject
    /\ steps' = steps + 1

Next ==
    \/ \E id \in BoardIds : MakeMove(id)
    \/ \E id \in BoardIds, current_player \in {X, O} : Reset(id, current_player)
    \/ Copy

Spec == Init /\ [][Next]_vars

\* ---------------------------------------------------------------- copy, then calls
\* the same calls, with the clone made before the counted calls and not
\* counted itself, so that make_move and reset act on an object that has
\* a clone, and on the clone
CopyFirst ==
    /\ steps = 0
    /\ CopyObject
    /\ UNCHANGED steps

NextSnapshot ==
    \/ \E id \in BoardIds : MakeMove(id)
    \/ \E id \in BoardIds, current_player \in {X, O} : Reset(id, current_player)
    \/ CopyFirst

SpecSnapshot == Init /\ [][NextSnapshot]_vars

\* ---------------------------------------------------------------- queries as calls
QueryNames == {"subboard_winner", "game_over", "winner", "get_legal_moves", "render"}

\* boards[id].<name>: a read of one of the properties, or a call of
\* get_legal_moves() or render().  get_legal_moves raises when its
\* first-move assertion fails; no query writes anything.
Query(id, name) ==
    /\ id \in DOMAIN boards
    /\ boards' = written(id, query_state(boards[id], name))
    /\ raised' = IF name = "get_legal_moves" /\ get_legal_moves_asserts(boards[id])
                 THEN "AssertionError" ELSE "none"
    /\ call' = [op |-> name, id |-> id]
    /\ UNCHANGED << moves, steps, arrays, history >>

\* ---------------------------------------------------------------- injected grids
\* The constructor takes any 9x9 array, any current_player and any
\* last_move.  The grids below are built from 3x3 slices that show every
\* canonical line complete, every line one cell short, lines of both
\* players at once, and full slices with and without a line.

\* the 8 canonical lines of a 3x3 slice, as sets of << row, column >>
Lines ==
    { { << r, c >> : c \in 0 .. 2 } : r \in 0 .. 2 }
    \cup { { << r, c >> : r \in 0 .. 2 } : c \in 0 .. 2 }
    \cup { { << i, i >> : i \in 0 .. 2 }, { << i, 2 - i >> : i \in 0 .. 2 } }

\* a line with one of its cells left out
NearLines == UNION { { L \ {c} : c \in L } : L \in Lines }

\* the slice that holds a on the cells of S and f elsewhere
SliceOf(a, S, f) ==
    [r \in 0 .. 2 |-> [c \in 0 .. 2 |-> IF << r, c >> \in S THEN a ELSE f]]

\* a full slice without a line:  a b a / a b a / b a b
FullUnwon(a, b) ==
    [r \in 0 .. 2 |-> [c \in 0 .. 2 |->
        IF r < 2 THEN (IF c = 1 THEN b ELSE a) ELSE (IF c = 1 THEN a ELSE b)]]

InjectedSlices ==
    { SliceOf(a, L, f) : a \in {X, O}, L \in Lines, f \in {EMPTY, X, O} }
    \cup { SliceOf(a, S, EMPTY) : a \in {X, O}, S \in NearLines }
    \cup { SliceOf(EMPTY, {}, EMPTY), FullUnwon(X, O), FullUnwon(O, X) }

\* what the sub-boards of a tiled grid hold, per entry of the meta slice
KindsOpen ==
    [k \in {EMPTY, X, O} |->
        IF k = X THEN SliceOf(X, { << i, i >> : i \in 0 .. 2 }, EMPTY)
        ELSE IF k = O THEN SliceOf(O, { << r, 1 >> : r \in 0 .. 2 }, EMPTY)
        ELSE SliceOf(EMPTY, {}, EMPTY)]
KindsFull ==
    [k \in {EMPTY, X, O} |->
        IF k = EMPTY THEN FullUnwon(X, O) ELSE KindsOpen[k]]

\* the 9x9 array whose sub-board (gx, gy) holds kinds[meta[gy][gx]]
Tiled(meta, kinds) ==
    [y \in 0 .. 8 |-> [x \in 0 .. 8 |->
        kinds[meta[y \div 3][x \div 3]][y % 3][x % 3]]]

\* board[3*gy : 3*gy + 3, 3*gx : 3*gx + 3] = slice
Overwritten(board, gx, gy, slice) ==
    [y \in 0 .. 8 |-> [x \in 0 .. 8 |->
        IF x \div 3 = gx /\ y \div 3 = gy THEN slice[y % 3][x % 3]
        ELSE board[y][x]]]

\* the current_player and last_move given to the constructor
InjectedHeaders == { << X, None >>, << O, 40 >> }

\* the constructed boards: the tiled arrays under both headers, and an
\* empty array and the final array of the drawn game with one sub-board
\* overwritten by a slice
InjectedBoards ==
    { NewBoardFrom(Tiled(meta, kinds), h[1], h[2]) :
        meta \in InjectedSlices, kinds \in {KindsOpen, KindsFull},
        h \in InjectedHeaders }
    \cup { NewBoardFrom(Overwritten(NewBoard.board, g[1], g[2], slice), X, None) :
             g \in (0 .. 2) \X (0 .. 2), slice \in InjectedSlices }
    \cup { NewBoardFrom(Overwritten(Recorded(GameDraw, Len(GameDraw)).board,
                                    g[1], g[2], slice), O, 40) :
             g \in (0 .. 2) \X (0 .. 2), slice \in InjectedSlices }

InitInjected ==
    /\ \E b \in InjectedBoards : boards = [id \in {"orig"} |-> b]
    /\ moves = [id \in {"orig"} |-> 0]
    /\ history = [id \in {"orig"} |-> << >>]
    /\ call = [op |-> "init", id |-> "orig"]
    /\ raised = "none"
    /\ steps = 0
    /\ arrays = [id \in {"orig"} |-> "orig"]

NextInjected ==
    \/ \E id \in BoardIds, name \in QueryNames : Query(id, name)
    \/ Copy

SpecInjected == InitInjected /\ [][NextInjected]_vars

\* ---------------------------------------------------------------- environment calls
\* The environment owns boards["orig"]; it makes no clone.

\* the actions given to step: 0..80 and MaxOutOfRange values beyond each end
EnvActions == (0 - MaxOutOfRange) .. (80 + MaxOutOfRange)

\* the arguments given to Position: one index, four coordinates (each
\* range widened by MaxOutOfRange at both ends), and other argument counts
PositionArgs ==
    { << i >> : i \in EnvActions }
    \cup { << gx, gy, cx, cy >> :
             gx \in (0 - MaxOutOfRange) .. (2 + MaxOutOfRange),
             gy \in (0 - MaxOutOfRange) .. (2 + MaxOutOfRange),
             cx \in (0 - MaxOutOfRange) .. (2 + MaxOutOfRange),
             cy \in (0 - MaxOutOfRange) .. (2 + MaxOutOfRange) }
    \cup { << >>, << 1, 1 >> }

\* step(action).  The calls that raise the same exception before the board
\* is written are one step, and the latest call records one of their actions.
EnvStep ==
    /\ \E over \in {game_over(boards["orig"])},
          asserts \in {get_legal_moves_asserts(boards["orig"])},
          legal_moves \in {get_legal_moves(boards["orig"])},
          current_player \in {boards["orig"].current_player} :
          \/ \E action \in EnvActions :
                \E e \in {env_step_raises(over, asserts, legal_moves, action)} :
                   /\ e \in {"none", "AttributeError"}
                   /\ steps < MaxSteps
                   /\ boards' = written("orig",
                                    env_step_state(boards["orig"], action, e))
                   /\ raised' = e
                   /\ call' = [op |-> "step", id |-> "orig", action |-> action,
                               returned |-> env_step_returned(
                                   env_step_state(boards["orig"], action, e),
                                   current_player, e)]
                   /\ moves' = [moves EXCEPT !["orig"] = @ + 1]
                   /\ history' = [history EXCEPT !["orig"] = Append(@, action)]
                   /\ steps' = steps + 1
          \/ \E e \in Exceptions \cap
                       { env_step_raises(over, asserts, legal_moves, action) :
                           action \in EnvActions } :
                \E action \in { CHOOSE a \in EnvActions :
                                  env_step_raises(over, asserts, legal_moves, a) = e } :
                   /\ boards' = written("orig",
                                    env_step_state(boards["orig"], action, e))
                   /\ raised' = e
                   /\ call' = [op |-> "step", id |-> "orig", action |-> action,
                               returned |-> << >>]
                   /\ UNCHANGED << moves, steps, history >>
    /\ UNCHANGED arrays

\* reset(): player is drawn from np_random
EnvReset(player) ==
    /\ steps < MaxSteps
    /\ boards' = written("orig", env_reset(boards["orig"], player).state)
    /\ raised' = env_reset(boards["orig"], player).raised
    /\ call' = [op |-> "reset", id |-> "orig", player |-> player,
                returned |-> env_reset(boards["orig"], player).returned]
    /\ moves' = [moves EXCEPT !["orig"] = 0]
    /\ history' = [history EXCEPT !["orig"] = << >>]
    /\ steps' = steps + 1
    /\ UNCHANGED arrays

\* _get_action_mask()
EnvGetActionMask ==
    /\ \E asserts \in {get_legal_moves_asserts(boards["orig"])} :
          /\ call' = [op |-> "_get_action_mask", id |-> "orig",
                      returned |-> IF asserts THEN << >>
                                   ELSE << get_action_mask(boards["orig"]) >>]
          /\ raised' = IF asserts THEN "AssertionError" ELSE "none"
    /\ UNCHANGED << boards, moves, steps, arrays, history >>

NextEnv ==
    \/ EnvStep
    \/ \E player \in {X, O} : EnvReset(player)
    \/ EnvGetActionMask

SpecEnv == Init /\ [][NextEnv]_vars

\* ---------------------------------------------------------------- Position calls
\* A caller holds a new board and the arguments it is about to give to
\* Position; it constructs the Position and plays it.
InitPosition ==
    /\ boards = [id \in {"orig"} |-> NewBoard]
    /\ moves = [id \in {"orig"} |-> 0]
    /\ history = [id \in {"orig"} |-> << >>]
    /\ \E args \in PositionArgs :
          call = [op |-> "init", id |-> "orig", args |-> args, returned |-> << >>]
    /\ raised = "none"
    /\ steps = 0
    /\ arrays = [id \in {"orig"} |-> "orig"]

\* Position(*args)
NewPosition ==
    /\ call.op = "init"
    /\ raised' = Position_init_raises(call.args)
    /\ call' = [op |-> "Position", id |-> "orig", args |-> call.args,
                returned |-> IF Position_init_raises(call.args) = "none"
                             THEN << Position_init(call.args) >> ELSE << >>]
    /\ UNCHANGED << boards, moves, steps, arrays, history >>

\* boards["orig"].make_move(position) with the Position just constructed
MakeMoveConstructed ==
    /\ call.op = "Position"
    /\ raised = "none"
    /\ steps < MaxSteps
    /\ \E m \in {make_move(boards["orig"], call.returned[1])} :
          /\ boards' = written("orig", m.state)
          /\ raised' = m.raised
          /\ moves' = [moves EXCEPT !["orig"] = IF m.raised = "none" THEN @ + 1 ELSE @]
          /\ history' = [history EXCEPT !["orig"] =
                           IF m.raised = "none" THEN Append(@, call.returned[1]) ELSE @]
          /\ steps' = IF m.raised = "none" THEN steps + 1 ELSE steps
    /\ call' = [op |-> "make_move", id |-> "orig"]
    /\ UNCHANGED arrays

NextPosition ==
    \/ NewPosition
    \/ MakeMoveConstructed

SpecPosition == InitPosition /\ [][NextPosition]_vars

\* ---------------------------------------------------------------- replay
\* Beside the board of a recorded game there is a new board, "replay";
\* the recorded moves are made on it one by one, and the original is
\* copied at some point.
InitReplay ==
    /\ \E g \in 1 .. Len(Games) : \E k \in Cuts(Games[g]) :
          /\ Replayable(Games[g], k)
          /\ boards = [id \in {"orig", "replay"} |->
                         IF id = "orig" THEN Recorded(Games[g], k) ELSE NewBoard]
          /\ moves = [id \in {"orig", "replay"} |-> IF id = "orig" THEN k ELSE 0]
          /\ history = [id \in {"orig", "replay"} |->
                          IF id = "orig" THEN SubSeq(Games[g], 1, k) ELSE << >>]
    /\ call = [op |-> "init", id |-> "orig"]
    /\ raised = "none"
    /\ steps = 0
    /\ arrays = [id \in {"orig", "replay"} |-> id]

\* boards["replay"].make_move(position) with the next recorded move
ReplayMove ==
    /\ moves["replay"] < Len(history["orig"])
    /\ \E position \in {history["orig"][moves["replay"] + 1]} :
       \E m \in {make_move(boards["replay"], position)} :
          /\ boards' = written("replay", m.state)
          /\ raised' = m.raised
          /\ m.raised = "none"
          /\ moves' = [moves EXCEPT !["replay"] = @ + 1]
          /\ history' = [history EXCEPT !["replay"] = Append(@, position)]
    /\ call' = [op |-> "make_move", id |-> "replay"]
    /\ UNCHANGED << steps, arrays >>

NextReplay ==
    \/ ReplayMove
    \/ Copy

SpecReplay == InitReplay /\ [][NextReplay]_vars

\* ---------------------------------------------------------------- vocabulary
\* the live board objects
Boards == { boards[id] : id \in DOMAIN boards }

\* what game_over and get_legal_moves answer on b, evaluated once
Answers(b) ==
    [ over |-> game_over(b),
      asserts |-> get_legal_moves_asserts(b),
      legal_moves |-> get_legal_moves(b) ]

\* what b.make_move(Position(p)) raises, q being Answers(b)
Raised(q, p) == make_move_raises(q.over, q.asserts, q.legal_moves, p)

\* the grid cell a Position addresses
cell(b, p) == b.board[board_y(p)][board_x(p)]

Opponent(player) == IF player = X THEN O ELSE X

\* the sub-board has an Empty cell
HasEmpty(b, gx, gy) ==
    \E cx \in 0 .. 2, cy \in 0 .. 2 : b.board[3 * gy + cy][3 * gx + cx] = EMPTY

\* a sub-board is available: its winner is Empty and it has an Empty cell
Available(b, gx, gy) ==
    /\ subboard_winner(b.board)[gy][gx] = EMPTY
    /\ HasEmpty(b, gx, gy)

\* the available sub-boards, as pairs << gx, gy >>
AvailableSubBoards(b) ==
    { g \in (0 .. 2) \X (0 .. 2) : Available(b, g[1], g[2]) }

\* the sub-board a Position lies in, as a pair << gx, gy >>
SubBoardOf(p) == << sub_grid_x(p), sub_grid_y(p) >>

\* the sub-board the last move of b sends to, as a pair << gx, gy >>
Target(b) == << cell_x(b.last_move), cell_y(b.last_move) >>

\* the latest call was a make_move on board id that raised e
LastMakeMove(id, e) ==
    /\ id \in DOMAIN boards
    /\ call = [op |-> "make_move", id |-> id]
    /\ raised = e

Count(b, player) == Cardinality({ p \in PositionIds : cell(b, p) = player })

\* ---------------------------------------------------------------- claims

\* C1: a successful make_move(p) in a non-terminal state writes the mark of
\* the player who was current before the call into the cell (row p.board_y,
\* column p.board_x), sets last_move to p, flips current_player and leaves
\* the other 80 cells unchanged.
C1_MakeMoveEffect ==
    \A b \in Boards : \A q \in {Answers(b)} : \A p \in PositionIds :
        Raised(q, p) = "none" =>
            \A a \in {make_move_state(b, p, "none")} :
                /\ ~ q.over
                /\ a.board[board_y(p)][board_x(p)] = b.current_player
                /\ a.last_move = p
                /\ a.current_player = Opponent(b.current_player)
                /\ \A r \in PositionIds \ {p} : cell(a, r) = cell(b, r)

\* a move has just been played on a board that already held marks
C1_Witness ==
    \E id \in DOMAIN boards :
        /\ LastMakeMove(id, "none")
        /\ steps > 0
        /\ moves[id] >= 2
        /\ cell(boards[id], boards[id].last_move)
              = Opponent(boards[id].current_player)

\* C2: send rule: when last_move is present and the sub-board
\* (last_move.cell_x, last_move.cell_y) is available, get_legal_moves()
\* is exactly the set of Empty cells of that sub-board.
C2_SendRule ==
    \A b \in Boards :
        (b.last_move # None /\ Available(b, Target(b)[1], Target(b)[2]))
        => get_legal_moves(b)
             = { p \in PositionIds :
                   SubBoardOf(p) = Target(b) /\ cell(b, p) = EMPTY }

\* a move sent the player to an available sub-board that is partly filled
C2_Witness ==
    \E id \in DOMAIN boards :
        /\ LastMakeMove(id, "none")
        /\ steps > 0
        /\ Target(boards[id]) \in AvailableSubBoards(boards[id])
        /\ Cardinality(get_legal_moves(boards[id])) \in 1 .. 6

\* C3: free-move rule: when last_move is present and the target sub-board
\* is won or full, get_legal_moves() is exactly the union of the Empty cells
\* of the sub-boards that are neither won nor full; it holds no cell of a
\* won sub-board and no cell of the target sub-board.
C3_FreeMoveRule ==
    \A b \in Boards :
        (b.last_move # None /\ ~ Available(b, Target(b)[1], Target(b)[2]))
        => \A legal \in {get_legal_moves(b)}, av \in {AvailableSubBoards(b)} :
             /\ legal = { p \in PositionIds :
                            SubBoardOf(p) \in av /\ cell(b, p) = EMPTY }
             /\ \A p \in legal :
                   /\ subboard_winner(b.board)[sub_grid_y(p)][sub_grid_x(p)] = EMPTY
                   /\ SubBoardOf(p) # Target(b)

\* a move sent the player to a won sub-board that still has Empty cells,
\* and the free move has somewhere to go
C3_Witness ==
    \E id \in DOMAIN boards :
        /\ LastMakeMove(id, "none")
        /\ steps > 0
        /\ subboard_winner(boards[id].board)[Target(boards[id])[2]]
                                            [Target(boards[id])[1]] # EMPTY
        /\ HasEmpty(boards[id], Target(boards[id])[1], Target(boards[id])[2])
        /\ get_legal_moves(boards[id]) # {}

\* C4: terminal is absorbing: when game_over is true every make_move(p)
\* raises RuntimeError, never ValueError; and once game_over is true of a
\* board it stays true until reset() is called on that board.
C4_TerminalAbsorbing ==
    /\ [](\A b \in Boards : \A q \in {Answers(b)} :
            q.over => \A p \in PositionIds : Raised(q, p) = "RuntimeError")
    /\ [][ \A id \in DOMAIN boards :
             ( /\ game_over(boards[id])
               /\ call' # [op |-> "reset", id |-> id] )
             => game_over(boards'[id]) ]_vars

\* make_move was called on a finished game that still has Empty cells in
\* an open sub-board, and raised RuntimeError
C4_Witness ==
    \E id \in DOMAIN boards :
        /\ LastMakeMove(id, "RuntimeError")
        /\ game_over(boards[id])
        /\ get_legal_moves(boards[id]) # {}

\* C5: a make_move call that raises leaves grid, current_player and
\* last_move as they were before the call.
C5_FailedMoveChangesNothing ==
    /\ [](\A b \in Boards : \A q \in {Answers(b)} : \A p \in PositionIds :
            Raised(q, p) # "none" => make_move_state(b, p, Raised(q, p)) = b)
    /\ [][ (call'.op = "make_move" /\ raised' # "none") => boards' = boards ]_vars

\* make_move raised ValueError on a board in play
C5_Witness ==
    \E id \in DOMAIN boards :
        /\ LastMakeMove(id, "ValueError")
        /\ moves[id] > 0

C7_LegalMovesAreEmpty ==
    \A b \in Boards : \A p \in get_legal_moves(b) : cell(b, p) = EMPTY

\* a free move: the legal moves lie in several sub-boards, some of them
\* partly filled
C7_Witness ==
    \E b \in Boards :
        /\ b.last_move # None
        /\ Cardinality({ SubBoardOf(p) : p \in get_legal_moves(b) }) >= 2
        /\ Cardinality(get_legal_moves(b)) % 9 # 0

\* C8: after make_move(m) succeeds for a legal move m, m is not a member
\* of the new get_legal_moves() result and current_player differs from its
\* value before the call.
C8_MoveLeavesLegalSet ==
    \A b \in Boards : \A q \in {Answers(b)} : \A m \in q.legal_moves :
        Raised(q, m) = "none" =>
            \A a \in {make_move_state(b, m, "none")} :
                /\ m \notin get_legal_moves(a)
                /\ a.current_player # b.current_player

\* the move just played lies in the very sub-board it sends to, and that
\* sub-board is available
C8_Witness ==
    \E id \in DOMAIN boards :
        /\ LastMakeMove(id, "none")
        /\ steps > 0
        /\ SubBoardOf(boards[id].last_move) = Target(boards[id])
        /\ Target(boards[id]) \in AvailableSubBoards(boards[id])

C10_LastMoveAbsentIffEmpty ==
    /\ \A id \in DOMAIN boards :
          /\ (boards[id].last_move = None) <=> (moves[id] = 0)
          /\ (moves[id] = 0) <=> board_all_empty(boards[id].board)
          /\ ~ get_legal_moves_asserts(boards[id])
    /\ raised # "AssertionError"

\* a board that had been played on was reset
C10_Witness ==
    \E id \in DOMAIN boards :
        /\ call = [op |-> "reset", id |-> id]
        /\ steps > 0
        /\ boards[id].last_move = None
        /\ moves[id] = 0

\* ---------------------------------------------------------------- winners
\* player holds all three cells of one of the 8 canonical lines of the
\* 3x3 matrix m
HasLine(m, player) ==
    \E L \in Lines : \A c \in L : m[c[1]][c[2]] = player

\* player holds a canonical line in sub-board (gx, gy) of the grid
HasSubLine(b, gx, gy, player) ==
    \E L \in Lines : \A c \in L : b.board[3 * gy + c[1]][3 * gx + c[2]] = player

\* the sub-board is won or full
Closed(b, sw, gx, gy) == sw[gy][gx] # EMPTY \/ ~ HasEmpty(b, gx, gy)

\* the latest call was the query name on board id
LastQuery(id, name) ==
    /\ id \in DOMAIN boards
    /\ call = [op |-> name, id |-> id]

\* C11: for every grid, game_over is true exactly when X has a completed
\* line on the subboard_winner matrix, or O has one, or each of the nine
\* sub-boards is won or full; a full sub-board nobody won has the entry
\* Empty, so it counts for neither player on the meta-board.
C11_GameOverLaw ==
    \A b \in Boards : \A sw \in {subboard_winner(b.board)} :
        /\ game_over(b) <=>
              \/ HasLine(sw, X)
              \/ HasLine(sw, O)
              \/ \A gx \in 0 .. 2, gy \in 0 .. 2 : Closed(b, sw, gx, gy)
        /\ \A gx \in 0 .. 2, gy \in 0 .. 2 :
              ( /\ ~ HasEmpty(b, gx, gy)
                /\ ~ HasSubLine(b, gx, gy, X)
                /\ ~ HasSubLine(b, gx, gy, O) )
              => sw[gy][gx] = EMPTY

\* game_over was read on a drawn grid: no meta line, every sub-board won
\* or full, one of them full and won by nobody
C11_Witness ==
    \E id \in DOMAIN boards : \E sw \in {subboard_winner(boards[id].board)} :
        /\ LastQuery(id, "game_over")
        /\ game_over(boards[id])
        /\ ~ HasLine(sw, X) /\ ~ HasLine(sw, O)
        /\ \E gx \in 0 .. 2, gy \in 0 .. 2 :
              sw[gy][gx] = EMPTY /\ ~ HasEmpty(boards[id], gx, gy)
        /\ \E gx \in 0 .. 2, gy \in 0 .. 2 :
              sw[gy][gx] # EMPTY /\ HasEmpty(boards[id], gx, gy)

\* C12: for every grid, winner is X exactly when X has a completed line on
\* the subboard_winner matrix, O exactly when O has one and X has none, and
\* Empty otherwise; so winner is Empty whenever game_over is false and
\* whenever the game ended without a meta line (draw).
C12_WinnerLaw ==
    \A b \in Boards :
        \A sw \in {subboard_winner(b.board)}, w \in {winner(b)}, over \in {game_over(b)} :
            /\ w = (IF HasLine(sw, X) THEN X
                    ELSE IF HasLine(sw, O) THEN O
                    ELSE EMPTY)
            /\ ~ over => w = EMPTY
            /\ (over /\ ~ HasLine(sw, X) /\ ~ HasLine(sw, O)) => w = EMPTY

\* winner was read on a grid whose meta-board has a line of X and a line
\* of O, and it is X
C12_Witness ==
    \E id \in DOMAIN boards : \E sw \in {subboard_winner(boards[id].board)} :
        /\ LastQuery(id, "winner")
        /\ HasLine(sw, X) /\ HasLine(sw, O)
        /\ winner(boards[id]) = X

\* C13: for every grid and every sub-board (gx, gy), subboard_winner[gy][gx]
\* is X if one of the 8 canonical lines of the sub-board is all X, O if no
\* line is all X and one is all O, and Empty otherwise; with a line of each
\* player X is reported.
C13_SubBoardWinnerLaw ==
    \A b \in Boards : \A sw \in {subboard_winner(b.board)} :
        \A gx \in 0 .. 2, gy \in 0 .. 2 :
            sw[gy][gx] = (IF HasSubLine(b, gx, gy, X) THEN X
                          ELSE IF HasSubLine(b, gx, gy, O) THEN O
                          ELSE EMPTY)

\* subboard_winner was read on a grid with a sub-board off the diagonal of
\* the meta-board that holds a line of each player; its entry is X
C13_Witness ==
    \E id \in DOMAIN boards : \E sw \in {subboard_winner(boards[id].board)} :
        /\ LastQuery(id, "subboard_winner")
        /\ \E gx \in 0 .. 2, gy \in 0 .. 2 :
              /\ gx # gy
              /\ HasSubLine(boards[id], gx, gy, X)
              /\ HasSubLine(boards[id], gx, gy, O)
              /\ sw[gy][gx] = X

\* the loser of won sub-board (gx, gy) holds two cells of a line whose
\* third cell is Empty
LoserThreatens(b, gx, gy) ==
    \E a \in {X, O} :
        /\ HasSubLine(b, gx, gy, a)
        /\ \E L \in Lines : \E c \in L :
              /\ b.board[3 * gy + c[1]][3 * gx + c[2]] = EMPTY
              /\ \A e \in L \ {c} :
                    b.board[3 * gy + e[1]][3 * gx + e[2]] = Opponent(a)

\* C14: in no state reached from a fresh board by make_move and reset does
\* a sub-board hold a completed line of X and a completed line of O, and in
\* no such state does the subboard_winner matrix hold a meta line of X and
\* a meta line of O.
C14_NoDoubleLines ==
    \A b \in Boards : \A sw \in {subboard_winner(b.board)} :
        /\ \A gx \in 0 .. 2, gy \in 0 .. 2 :
              ~ (HasSubLine(b, gx, gy, X) /\ HasSubLine(b, gx, gy, O))
        /\ ~ (HasLine(sw, X) /\ HasLine(sw, O))

\* a move was played while the loser of a won sub-board was one mark short
\* of a line there
C14_Witness ==
    \E id \in DOMAIN boards :
        /\ LastMakeMove(id, "none")
        /\ steps > 0
        /\ \E gx \in 0 .. 2, gy \in 0 .. 2 : LoserThreatens(boards[id], gx, gy)

Fresh(b) ==
    /\ board_all_empty(b.board)
    /\ b.last_move = None
    /\ ~ game_over(b)
    /\ winner(b) = EMPTY
    /\ ~ get_legal_moves_asserts(b)
    /\ get_legal_moves(b) = 0 .. 80
    /\ Cardinality(get_legal_moves(b)) = 81

\* C16: on a freshly created board, and after reset() called in any
\* reachable state (terminal ones included), the grid is all Empty,
\* last_move is absent, game_over is false, winner is Empty and
\* get_legal_moves() returns exactly the 81 positions 0..80.
C16_FreshAfterReset ==
    /\ Fresh(NewBoard)
    /\ \A b \in Boards : \A current_player \in {X, O} :
          Fresh(reset(b, current_player))
    /\ \A id \in DOMAIN boards :
          call = [op |-> "reset", id |-> id] => Fresh(boards[id])

\* reset was called on a board in play or finished, and left it fresh
C16_Witness ==
    \E id \in DOMAIN boards :
        /\ call = [op |-> "reset", id |-> id]
        /\ steps > 0
        /\ get_legal_moves(boards[id]) = PositionIds
        /\ ~ game_over(boards[id])

\* C17 as stated: reset(starting_player = p) returns the board to the
\* initial empty state with current_player equal to p, for p in {X, O}
\* (with no argument p is X).
C17_ResetStartingPlayer ==
    [][ \A id \in BoardIds, p \in {X, O} :
          Reset(id, p) => /\ Fresh(boards'[id])
                          /\ boards'[id].current_player = p ]_vars

\* C18: copy() snapshot law: right after c = b.copy(), c has the grid,
\* current_player and last_move of b, in an array of its own; a later
\* make_move or reset() on b leaves c unchanged, and one on c leaves b
\* unchanged.
C18_CopySnapshot ==
    /\ [] /\ call.op = "copy" => boards["clone"] = boards["orig"]
          /\ \A i \in DOMAIN boards, j \in DOMAIN boards :
                i # j => arrays[i] # arrays[j]
    /\ [][ \A id \in DOMAIN boards :
             (call'.id = id /\ call'.op \in {"make_move", "reset"})
             => \A other \in DOMAIN boards \ {id} :
                   boards'[other] = boards[other] ]_vars

\* after the copy a move was played on one of the two objects, or it was
\* reset: the two now differ
C18_Witness ==
    /\ DOMAIN boards = BoardIds
    /\ call.op \in {"make_move", "reset"}
    /\ raised = "none"
    /\ steps > 0
    /\ boards["orig"].board # boards["clone"].board

\* what the three derived views answer on b
Views(b) ==
    [ subboard_winner |-> subboard_winner(b.board),
      game_over |-> game_over(b),
      winner |-> winner(b) ]

\* boards with the grid of b that differ from b in current_player, in
\* last_move, and in both
SameGrid(b) ==
    { NewBoardFrom(b.board, cp, lm) :
        cp \in {b.current_player, Opponent(b.current_player)},
        lm \in {b.last_move, IF b.last_move = None THEN 40 ELSE None} } \ {b}

\* C19: subboard_winner, game_over and winner are functions of the grid
\* alone: boards with equal grids and different current_player and / or
\* last_move get the same three answers; and reading these views, calling
\* get_legal_moves(), render() or copy() changes the grid, current_player
\* and last_move of no object.
C19_ViewsArePure ==
    /\ [](\A b \in Boards : \A v \in {Views(b)} :
             \A other \in SameGrid(b) : Views(other) = v)
    /\ [][ call'.op \in QueryNames \cup {"copy"}
           => \A id \in DOMAIN boards : boards'[id] = boards[id] ]_vars

\* winner was read on a finished game whose winner is the player to move
C19_Witness ==
    \E id \in DOMAIN boards :
        /\ LastQuery(id, "winner")
        /\ winner(boards[id]) = boards[id].current_player
        /\ boards[id].last_move = None

\* the four coordinates of the Position with index p
Coordinates(p) == << sub_grid_x(p), sub_grid_y(p), cell_x(p), cell_y(p) >>

\* C20: Position round trip: for every index i in 0..80 the Position built
\* from the four coordinates of Position(i) has index i (and so equals
\* it); for every (gx, gy, cx, cy) in [0,2]^4 the Position built from them
\* has exactly these coordinates; so indices and coordinate 4-tuples
\* correspond one to one.
C20_PositionRoundTrip ==
    /\ \A i \in PositionIds :
          PositionFromGrid(sub_grid_x(i), sub_grid_y(i), cell_x(i), cell_y(i)) = i
    /\ \A gx \in 0 .. 2, gy \in 0 .. 2, cx \in 0 .. 2, cy \in 0 .. 2 :
          /\ PositionFromGrid(gx, gy, cx, cy) \in PositionIds
          /\ Coordinates(PositionFromGrid(gx, gy, cx, cy)) = << gx, gy, cx, cy >>
    /\ { Coordinates(i) : i \in PositionIds } = (0 .. 2) \X (0 .. 2) \X (0 .. 2) \X (0 .. 2)
    /\ \A b \in Boards : \A p \in get_legal_moves(b) :
          PositionFromGrid(sub_grid_x(p), sub_grid_y(p), cell_x(p), cell_y(p)) = p

\* make_move accepted a Position given by its index because it equals one
\* that get_legal_moves built from coordinates, no two of which agree
\* between the grid pair and the cell pair
C20_Witness ==
    \E id \in DOMAIN boards :
        /\ LastMakeMove(id, "none")
        /\ steps > 0
        /\ moves[id] >= 2
        /\ \E p \in {boards[id].last_move} :
              /\ sub_grid_x(p) # sub_grid_y(p)
              /\ cell_x(p) # cell_y(p)
              /\ sub_grid_x(p) # cell_x(p)
              /\ sub_grid_y(p) # cell_y(p)
              /\ PositionFromGrid(sub_grid_x(p), sub_grid_y(p), cell_x(p), cell_y(p)) = p

\* C21: for every Position with index i in 0..80: board_x = i mod 9 and
\* board_y = i div 9, both in 0..8; sub_grid_x, sub_grid_y, cell_x and
\* cell_y are in 0..2; board_x = 3*sub_grid_x + cell_x and board_y =
\* 3*sub_grid_y + cell_y; sub_grid_id = sub_grid_x + 3*sub_grid_y and
\* cell_id = cell_x + 3*cell_y, both in 0..8 (sub_grid_id counts the
\* sub-boards that come before in row-major order). This holds of the
\* Positions that get_legal_moves() returns as of all others.
C21_PositionCoordinates ==
    \A b \in Boards : \A i \in PositionIds \cup get_legal_moves(b) :
        /\ board_x(i) = i % 9 /\ board_y(i) = i \div 9
        /\ board_x(i) \in 0 .. 8 /\ board_y(i) \in 0 .. 8
        /\ i = board_x(i) + 9 * board_y(i)
        /\ { sub_grid_x(i), sub_grid_y(i), cell_x(i), cell_y(i) } \subseteq 0 .. 2
        /\ board_x(i) = 3 * sub_grid_x(i) + cell_x(i)
        /\ board_y(i) = 3 * sub_grid_y(i) + cell_y(i)
        /\ sub_grid_id(i) = sub_grid_x(i) + 3 * sub_grid_y(i)
        /\ cell_id(i) = cell_x(i) + 3 * cell_y(i)
        /\ sub_grid_id(i) \in 0 .. 8 /\ cell_id(i) \in 0 .. 8
        /\ sub_grid_id(i) = Cardinality({ g \in (0 .. 2) \X (0 .. 2) :
                                \/ g[2] < sub_grid_y(i)
                                \/ g[2] = sub_grid_y(i) /\ g[1] < sub_grid_x(i) })

\* make_move wrote the mark of a Position off the main diagonal of the
\* grid, whose sub-grid and cell numbers differ, at [board_y, board_x]
C21_Witness ==
    \E id \in DOMAIN boards :
        /\ LastMakeMove(id, "none")
        /\ steps > 0
        /\ \E p \in {boards[id].last_move} :
              /\ board_x(p) # board_y(p)
              /\ sub_grid_id(p) # cell_id(p)
              /\ boards[id].board[board_y(p)][board_x(p)] # EMPTY

\* the arguments are one index in 0..80, or four coordinates in 0..2
InRange(args) ==
    \/ Len(args) = 1 /\ args[1] \in 0 .. 80
    \/ Len(args) = 4 /\ \A k \in 1 .. 4 : args[k] \in 0 .. 2

\* C22: Position construction fails with AssertionError and produces no
\* Position whenever the index given is outside 0..80 or one of the four
\* coordinates given is outside 0..2; an out-of-range value is never
\* clamped or wrapped into a valid Position.  Arguments in range give the
\* Position with that index, or with those coordinates.
C22_InvalidPositionConstruction ==
    call.op = "Position" =>
        \A args \in {call.args} :
            /\ (Len(args) \in {1, 4} /\ ~ InRange(args)) =>
                  /\ raised = "AssertionError"
                  /\ call.returned = << >>
            /\ InRange(args) =>
                  /\ raised = "none"
                  /\ Len(call.returned) = 1
                  /\ call.returned[1] \in PositionIds
                  /\ Len(args) = 1 => call.returned[1] = args[1]
                  /\ Len(args) = 4 => Coordinates(call.returned[1]) = args
            /\ call.returned # << >> => InRange(args)

\* the constructor refused four coordinates of which only one is out of
\* range, by one, at the low end: wrapped or clamped it would have given
\* a Position
C22_Witness ==
    /\ call.op = "Position"
    /\ Len(call.args) = 4
    /\ Cardinality({ k \in 1 .. 4 : call.args[k] \notin 0 .. 2 }) = 1
    /\ \E k \in 1 .. 4 : call.args[k] = 0 - 1
    /\ raised = "AssertionError"
    /\ call.returned = << >>

C30_StepReward ==
    (call.op = "step" /\ raised \notin Exceptions) =>
        \A b \in {boards["orig"]} : \A mover \in {Opponent(b.current_player)} :
            /\ raised = "none"
            /\ Len(call.returned) = 1
            /\ call.returned[1].reward =
                  ( IF game_over(b) /\ winner(b) = mover THEN 1
                    ELSE IF game_over(b) /\ winner(b) = Opponent(mover) THEN 0 - 1
                    ELSE 0 )
            /\ call.returned[1].terminated = game_over(b)
            /\ call.returned[1].truncated = FALSE

\* the lines of a text: the pieces between its newline characters
SplitLines(text) ==
    LET newlines == { i \in 1 .. Len(text) : text[i] = "\n" }
        ends == newlines \cup {Len(text) + 1}
        end(k) == CHOOSE i \in ends : Cardinality({ j \in ends : j < i }) = k - 1
        start(k) == IF k = 1 THEN 1 ELSE end(k - 1) + 1
    IN  [ k \in 1 .. Cardinality(ends) |-> SubSeq(text, start(k), end(k) - 1) ]

\* C24: render() returns, for every grid, exactly 11 lines: 9 cell lines
\* of length 21 and two separator lines of 23 dashes at line indices 3
\* and 7; the cell line of grid row r shows the 9 cells of row r in
\* column order as '.', 'X' or 'O' (Empty, X, O), with a single space
\* between cells of the same sub-board and ' | ' between sub-board
\* columns.
C24_RenderFormat ==
    call.op = "render" =>
        \A lines \in {SplitLines(render(boards[call.id]))} :
            /\ Len(lines) = 11
            /\ \A k \in {3, 7} : lines[k + 1] = [i \in 1 .. 23 |-> "-"]
            /\ \A r \in 0 .. 8 : \A line \in {lines[r + (r \div 3) + 1]} :
                  /\ Len(line) = 21
                  /\ \A c \in 0 .. 8 :
                        line[8 * (c \div 3) + 2 * (c % 3) + 1] =
                            ( IF boards[call.id].board[r][c] = EMPTY THEN "."
                              ELSE IF boards[call.id].board[r][c] = X THEN "X"
                              ELSE "O" )
                  /\ \A i \in 0 .. 20 :
                        /\ i \in {6, 14} => line[i + 1] = "|"
                        /\ (i % 2 = 1 \/ i \in {5, 7, 13, 15}) /\ i \notin {6, 14}
                              => line[i + 1] = " "

\* render() was called on a grid that shows all three marks and is not
\* symmetric: some cell holds X where its mirror image holds O
C24_Witness ==
    /\ call.op = "render"
    /\ \E r \in 0 .. 8, c \in 0 .. 8 :
          /\ boards[call.id].board[r][c] = X
          /\ boards[call.id].board[c][r] = O
    /\ \E r \in 0 .. 8, c \in 0 .. 8 : boards[call.id].board[r][c] = EMPTY

\* C25: termination and progress: in every reachable state where game_over
\* is false get_legal_moves() is not empty, so no game in play is stuck;
\* and every sequence of successful make_move calls from a fresh board
\* reaches game_over within 81 moves: the moves made since the board was
\* fresh and the Empty cells add up to 81, a move is accepted only while
\* the game is in play and leaves one Empty cell less, and a grid without
\* an Empty cell is game over.
C25_TerminationAndProgress ==
    \A id \in DOMAIN boards :
        \A b \in {boards[id]} : \A q \in {Answers(b)}, empty \in {Count(b, EMPTY)} :
            /\ ~ q.over => q.legal_moves # {}
            /\ moves[id] + empty = 81
            /\ moves[id] <= 81
            /\ empty = 0 => q.over
            /\ \A m \in PositionIds :
                  Raised(q, m) = "none" =>
                      /\ ~ q.over
                      /\ Count(make_move_state(b, m, "none"), EMPTY) = empty - 1

\* a successful make_move just ended a game that had been in play, well
\* within 81 moves, with Empty cells left
C25_Witness ==
    \E id \in DOMAIN boards :
        /\ LastMakeMove(id, "none")
        /\ game_over(boards[id])
        /\ moves[id] < 81
        /\ Count(boards[id], EMPTY) > 0
        /\ history[id] # << >>
        /\ ~ game_over(Recorded(history[id], Len(history[id]) - 1))

\* what get_legal_moves() answers on board a, whose only move is m
AfterFirstMove(a, m) ==
    \A legal_moves \in {get_legal_moves(a)} :
        /\ legal_moves = { p \in PositionIds :
                             /\ SubBoardOf(p) = << cell_x(m), cell_y(m) >>
                             /\ cell(a, p) = EMPTY }
        /\ Cardinality(legal_moves) =
              ( IF sub_grid_x(m) = cell_x(m) /\ sub_grid_y(m) = cell_y(m)
                THEN 8 ELSE 9 )
        /\ \A p \in legal_moves :
              sub_grid_x(p) = cell_x(m) /\ sub_grid_y(p) = cell_y(m)

\* C26: after any first move m on an empty board get_legal_moves() is
\* exactly the Empty cells of sub-board (m.cell_x, m.cell_y): 8 positions
\* when m itself lies in that sub-board (index 40, for one), 9 otherwise,
\* all with sub_grid_x = m.cell_x and sub_grid_y = m.cell_y.
C26_LegalAfterFirstMove ==
    \A id \in DOMAIN boards : \A b \in {boards[id]} :
        /\ (moves[id] = 0 /\ board_all_empty(b.board)) =>
              \A q \in {Answers(b)} : \A m \in PositionIds :
                  /\ Raised(q, m) = "none"
                  /\ AfterFirstMove(make_move_state(b, m, "none"), m)
        /\ moves[id] = 1 => AfterFirstMove(b, b.last_move)
        /\ (moves[id] = 1 /\ b.last_move = 40) => Cardinality(get_legal_moves(b)) = 8

\* the first move of a game was just played into the sub-board it sends
\* to, which leaves 8 legal moves
C26_Witness ==
    \E id \in DOMAIN boards :
        /\ LastMakeMove(id, "none")
        /\ moves[id] = 1
        /\ SubBoardOf(boards[id].last_move) = Target(boards[id])
        /\ boards[id].last_move # 40
        /\ Cardinality(get_legal_moves(boards[id])) = 8

\* boards a and b agree in grid, current_player and last_move, and in
\* game_over and winner
SameBoard(a, b) ==
    /\ a.board = b.board
    /\ a.current_player = b.current_player
    /\ a.last_move = b.last_move
    /\ game_over(a) = game_over(b)
    /\ winner(a) = winner(b)

\* C27: determinism / replay: make_move is a deterministic function of
\* state and position, so replaying the recorded sequence of the
\* successful moves of a game on a fresh board yields the same grid,
\* current_player, last_move, game_over and winner as the original board
\* has, and as its copy() has.  No replayed move raises, and the replay
\* of a part of the sequence is the board that the game showed then.
C27_ReplayDeterminism ==
    /\ call = [op |-> "make_move", id |-> "replay"] => raised = "none"
    /\ history["replay"] = SubSeq(history["orig"], 1, moves["replay"])
    /\ boards["replay"] = Recorded(history["orig"], moves["replay"])
    /\ moves["replay"] = Len(history["orig"]) =>
          /\ SameBoard(boards["replay"], boards["orig"])
          /\ SameBoard(boards["replay"], copy(boards["orig"]))
          /\ "clone" \in DOMAIN boards => SameBoard(boards["replay"], boards["clone"])

\* the last move of a finished game was just replayed, and the game has
\* a clone
C27_Witness ==
    /\ call = [op |-> "make_move", id |-> "replay"]
    /\ "clone" \in DOMAIN boards
    /\ moves["replay"] = Len(history["orig"])
    /\ moves["replay"] > 30
    /\ game_over(boards["replay"])
    /\ boards["clone"].last_move = boards["replay"].last_move

\* the cells of sub-board g = << gx, gy >> of a grid
SubBoardCells(board, g) ==
    [ cy \in 0 .. 2 |-> [ cx \in 0 .. 2 |-> board[3 * g[2] + cy][3 * g[1] + cx] ] ]

\* the nine entries of subboard_winner, row by row: the entry of
\* sub-board g = << gx, gy >> is the one numbered gx + 3 * gy + 1
Entries(board) ==
    << subboard_winner(board)[0][0], subboard_winner(board)[0][1],
       subboard_winner(board)[0][2], subboard_winner(board)[1][0],
       subboard_winner(board)[1][1], subboard_winner(board)[1][2],
       subboard_winner(board)[2][0], subboard_winner(board)[2][1],
       subboard_winner(board)[2][2] >>

\* C28: won sub-boards are frozen: for every reachable state and every
\* successful make_move, each sub-board whose subboard_winner entry was X
\* or O before the move has the same cells and the same winner after it;
\* a move changes at most one subboard_winner entry, only that of the
\* sub-board it was played in, and only from Empty to the mover's mark.
C28_WonSubBoardsFrozen ==
    \A b \in Boards : \A q \in {Answers(b)}, sw \in {Entries(b.board)} :
        \A m \in PositionIds :
            Raised(q, m) = "none" =>
                \A a \in {make_move_state(b, m, "none")} :
                \A sw2 \in {Entries(a.board)} :
                \A changed \in {{ k \in 1 .. 9 : sw2[k] # sw[k] }} :
                    /\ \A g \in (0 .. 2) \X (0 .. 2) :
                          sw[g[1] + 3 * g[2] + 1] # EMPTY =>
                              /\ SubBoardCells(a.board, g) = SubBoardCells(b.board, g)
                              /\ sw2[g[1] + 3 * g[2] + 1] = sw[g[1] + 3 * g[2] + 1]
                    /\ Cardinality(changed) <= 1
                    /\ changed \subseteq {sub_grid_id(m) + 1}
                    /\ \A k \in changed :
                          /\ sw[k] = EMPTY
                          /\ sw2[k] = b.current_player

\* the move just made won its sub-board for the mover, while a sub-board
\* won before, which still has Empty cells, kept its cells and its winner
C28_Witness ==
    \E id \in DOMAIN boards :
        /\ LastMakeMove(id, "none")
        /\ \E before \in {Recorded(history[id], Len(history[id]) - 1)} :
           \E sw \in {subboard_winner(before.board)},
              sw2 \in {subboard_winner(boards[id].board)},
              g \in {SubBoardOf(boards[id].last_move)} :
              /\ sw[g[2]][g[1]] = EMPTY
              /\ sw2[g[2]][g[1]] = before.current_player
              /\ \E h \in (0 .. 2) \X (0 .. 2) :
                    /\ sw[h[2]][h[1]] # EMPTY
                    /\ HasEmpty(before, h[1], h[2])
                    /\ sw2[h[2]][h[1]] = sw[h[2]][h[1]]
                    /\ SubBoardCells(boards[id].board, h) = SubBoardCells(before.board, h)

\* C29: in every reachable state with last_move present the grid cell at
\* last_move holds the mark of the player opposite to current_player; and
\* in every reachable state with winner not Empty, winner is that mark: a
\* game is won by the player who made the final move, never by the player
\* to move.
C29_WinnerMadeLastMove ==
    \A b \in Boards : \A w \in {winner(b)} :
        /\ b.last_move # None =>
              /\ cell(b, b.last_move) = Opponent(b.current_player)
              /\ cell(b, b.last_move) # EMPTY
        /\ w # EMPTY =>
              /\ b.last_move # None
              /\ w = cell(b, b.last_move)
              /\ w # b.current_player

\* the move just made won the game for the mover
C29_Witness ==
    \E id \in DOMAIN boards :
        /\ LastMakeMove(id, "none")
        /\ steps > 0
        /\ winner(boards[id]) = Opponent(boards[id].current_player)
        /\ winner(Recorded(history[id], Len(history[id]) - 1)) = EMPTY
        /\ ~ game_over(Recorded(history[id], Len(history[id]) - 1))

\* ---------------------------------------------------------------- C31
\* C31: in every state reached through reset and step, the reward of a
\* step is 0 or +1 and never -1: after step has applied a move,
\* _calculate_reward for the player who made it is 0 or 1, because a
\* finished game's winner is never the other player, and a reward that
\* step returns is 0 or 1.
C31_RewardNeverNegative ==
    (call.op = "step" /\ raised \notin Exceptions) =>
        \A b \in {boards["orig"]} :
            /\ calculate_reward(b, Opponent(b.current_player)) \in {0, 1}
            /\ game_over(b) => winner(b) # b.current_player
            /\ \A i \in 1 .. Len(call.returned) :
                  call.returned[i].reward \in {0, 1}

\* a step by O has completed a line of won sub-boards for O: the reward for
\* the mover is +1, and it would be -1 for X
C31_Witness ==
    /\ call.op = "step"
    /\ raised \notin Exceptions
    /\ game_over(boards["orig"])
    /\ winner(boards["orig"]) = O
    /\ boards["orig"].current_player = X
    /\ calculate_reward(boards["orig"], O) = 1
    /\ calculate_reward(boards["orig"], X) = 0 - 1

\* ---------------------------------------------------------------- C32
\* C32: step(a) with an action in 0..80 that is not legal now (the game
\* being in play) does not raise: it returns reward -100 with done true.
C32_IllegalActionPenalised ==
    [][ \A b \in {boards["orig"]} :
          ( /\ call'.op = "step"
            /\ call'.action \in 0 .. 80
            /\ ~ game_over(b)
            /\ ~ get_legal_moves_asserts(b)
            /\ call'.action \notin get_legal_moves(b) )
          => /\ raised' = "none"
             /\ Len(call'.returned) = 1
             /\ call'.returned[1].reward = 0 - 100
             /\ call'.returned[1].terminated = TRUE ]_vars

\* ---------------------------------------------------------------- C33
\* C33: step(a) with an action outside 0..80 raises ValueError and leaves
\* the board's grid, current_player and last_move unchanged.
C33_OutOfRangeActionRaisesValueError ==
    [][ ( /\ call'.op = "step"
          /\ call'.action \notin 0 .. 80 )
        => /\ raised' = "ValueError"
           /\ boards'["orig"] = boards["orig"] ]_vars

C35_ActionIsSubBoardAndCell ==
    [][ \A p \in PositionIds :
          ( /\ call'.op = "step"
            /\ raised' \notin Exceptions
            /\ boards["orig"].board[board_y(p)][board_x(p)] = EMPTY
            /\ boards'["orig"].board[board_y(p)][board_x(p)] # EMPTY )
          => /\ sub_grid_id(p) = call'.action \div 9
             /\ cell_id(p) = call'.action % 9 ]_vars

\* ---------------------------------------------------------------- RandomOpponentWrapper
\* The wrapper holds the environment, whose board is boards["orig"], and a
\* RandomAgent.  Its fields prev_player and step_count are assigned in
\* reset() after env.reset() has returned and are read nowhere.

\* env.step(action) on board b, which raises e: the board afterwards,
\* the exception raised and what is returned
env_step_raising(b, action, e) ==
    [ state |-> env_step_state(b, action, e),
      raised |-> e,
      returned |-> env_step_returned(env_step_state(b, action, e),
                                     b.current_player, e) ]

\* env.step(action) on board b
env_step(b, action) ==
    env_step_raising(b, action,
        env_step_raises(game_over(b), get_legal_moves_asserts(b),
                        get_legal_moves(b), action))

\* the methods of RandomAgent
RandomAgentMethods == {"select_action", "get_action_probs"}

\* RandomAgent.select_action(env): the exception raised
select_action_raises(b) ==
    IF get_legal_moves_asserts(b) THEN "AssertionError"
    ELSE IF get_legal_moves(b) = {} THEN "ValueError"
    ELSE "none"

\* RandomAgent.select_action(env): the actions random.choice may give
select_action(b) == { board_id(pos) : pos \in get_legal_moves(b) }

\* _calculate_reward_from_ppo_perspective()
calculate_reward_from_ppo_perspective(b) ==
    IF ~ game_over(b) THEN 0
    ELSE IF winner(b) = EMPTY THEN 0
    ELSE IF winner(b) = X THEN 1
    ELSE 0 - 1

\* RandomOpponentWrapper.step, second half: the call of the opponent's
\* method, which raises, or gives the opponent's action
opponent_action_raises(b) ==
    IF "select_action_from_env" \in RandomAgentMethods THEN "AttributeError"
    ELSE IF "predict" \in RandomAgentMethods THEN "AttributeError"
    ELSE IF "select_action" \in RandomAgentMethods THEN select_action_raises(b)
    ELSE "AttributeError"

\* RandomOpponentWrapper.step(action), given the result first of its
\* env.step(action) and, when the opponent moves, the result second of
\* env.step(opponent_action): the board afterwards, the exception raised,
\* what is returned and the actions applied to the board
random_opponent_step(first, action, second, opponent_action) ==
    IF first.raised # "none"
    THEN [ state |-> first.state, raised |-> first.raised, returned |-> << >>,
           applied |-> IF first.raised = "AttributeError" THEN << action >>
                       ELSE << >> ]
    ELSE IF first.returned[1].terminated
    THEN [ state |-> first.state, raised |-> "none",
           returned |-> << [ observation |-> first.returned[1].observation,
                             reward |-> calculate_reward_from_ppo_perspective(
                                            first.state),
                             terminated |-> TRUE,
                             truncated |-> first.returned[1].truncated,
                             info |-> first.returned[1].info ] >>,
           applied |-> << action >> ]
    ELSE IF first.state.current_player = O
    THEN IF opponent_action_raises(first.state) # "none"
         THEN [ state |-> first.state,
                raised |-> opponent_action_raises(first.state),
                returned |-> << >>, applied |-> << action >> ]
         ELSE IF second.raised # "none"
         THEN [ state |-> second.state, raised |-> second.raised,
                returned |-> << >>,
                applied |-> IF second.raised = "AttributeError"
                            THEN << action, opponent_action >>
                            ELSE << action >> ]
         ELSE [ state |-> second.state, raised |-> "none",
                returned |-> << [ observation |-> second.returned[1].observation,
                                  reward |-> calculate_reward_from_ppo_perspective(
                                                 second.state),
                                  terminated |-> second.returned[1].terminated,
                                  truncated |-> second.returned[1].truncated,
                                  info |-> second.returned[1].info ] >>,
                applied |-> << action, opponent_action >> ]
    ELSE [ state |-> first.state, raised |-> "none",
           returned |-> << [ observation |-> first.returned[1].observation,
                             reward |-> 0,
                             terminated |-> FALSE,
                             truncated |-> first.returned[1].truncated,
                             info |-> first.returned[1].info ] >>,
           applied |-> << action >> ]

\* the opponent's actions that step(action) may draw after env.step(action)
\* gave first; None when the opponent is not asked
opponent_actions(first) ==
    IF /\ first.raised = "none"
       /\ ~ first.returned[1].terminated
       /\ first.state.current_player = O
       /\ opponent_action_raises(first.state) = "none"
    THEN select_action(first.state)
    ELSE {None}

\* RandomOpponentWrapper.step(action).  The calls that raise the same
\* exception with nothing applied are one step, as in EnvStep.
RandomOpponentStep ==
    /\ \E over \in {game_over(boards["orig"])},
          asserts \in {get_legal_moves_asserts(boards["orig"])},
          legal_moves \in {get_legal_moves(boards["orig"])} :
          \E action \in EnvActions :
             \E first \in { env_step_raising(boards["orig"], action,
                                env_step_raises(over, asserts, legal_moves,
                                                action)) } :
                \E opponent_action \in opponent_actions(first) :
                   \E r \in { random_opponent_step(first, action,
                                  IF opponent_action = None THEN first
                                  ELSE env_step(first.state, opponent_action),
                                  opponent_action) } :
                      /\ r.applied # << >> => steps < MaxSteps
                      /\ r.applied = << >> =>
                            action = CHOOSE a \in EnvActions :
                                        env_step_raises(over, asserts,
                                                        legal_moves, a) = r.raised
                      /\ boards' = written("orig", r.state)
                      /\ raised' = r.raised
                      /\ call' = [op |-> "RandomOpponentWrapper.step",
                                  id |-> "orig", action |-> action,
                                  returned |-> r.returned]
                      /\ moves' = [moves EXCEPT !["orig"] = @ + Len(r.applied)]
                      /\ history' = [history EXCEPT !["orig"] = @ \o r.applied]
                      /\ steps' = steps + (IF r.applied = << >> THEN 0 ELSE 1)
    /\ UNCHANGED arrays

\* RandomOpponentWrapper.reset(): env.reset() and, when it has returned,
\* the two assignments
RandomOpponentReset(player) ==
    /\ steps < MaxSteps
    /\ boards' = written("orig", env_reset(boards["orig"], player).state)
    /\ raised' = env_reset(boards["orig"], player).raised
    /\ call' = [op |-> "RandomOpponentWrapper.reset", id |-> "orig",
                player |-> player,
                returned |-> env_reset(boards["orig"], player).returned]
    /\ moves' = [moves EXCEPT !["orig"] = 0]
    /\ history' = [history EXCEPT !["orig"] = << >>]
    /\ steps' = steps + 1
    /\ UNCHANGED arrays

NextRandomOpponent ==
    \/ RandomOpponentStep
    \/ \E player \in {X, O} : RandomOpponentReset(player)

SpecRandomOpponent == Init /\ [][NextRandomOpponent]_vars

\* ---------------------------------------------------------------- C36
\* C36: RandomOpponentWrapper: the agent plays X and the opponent O; each
\* step() applies the agent's move and then, if the game is not over,
\* exactly one opponent move chosen from get_legal_moves(); whenever
\* step() returns with done false, current_player is X again; the reward
\* returned is +1 if the game ended with winner X, -1 if it ended with
\* winner O, and 0 if it ended in a draw or has not ended.
C36_RandomOpponentStep ==
    [][ ( /\ call'.op = "RandomOpponentWrapper.step"
          /\ raised' \notin Exceptions
          /\ boards["orig"].current_player = X )
        => \A before \in {boards["orig"]}, after \in {boards'["orig"]} :
             \A agent \in {make_move_state(before, call'.action, "none")} :
                /\ cell(agent, call'.action) = X
                /\ IF game_over(agent)
                   THEN after = agent
                   ELSE \E reply \in get_legal_moves(agent) :
                           /\ after = make_move_state(agent, reply, "none")
                           /\ cell(after, reply) = O
                /\ raised' = "none"
                /\ Len(call'.returned) = 1
                /\ call'.returned[1].terminated = game_over(after)
                /\ ~ call'.returned[1].terminated => after.current_player = X
                /\ call'.returned[1].reward =
                      ( IF game_over(after) /\ winner(after) = X THEN 1
                        ELSE IF game_over(after) /\ winner(after) = O THEN 0 - 1
                        ELSE 0 ) ]_vars

\* ---------------------------------------------------------------- SelfPlayWrapper
\* The wrapper holds the environment, whose board is boards["orig"], and
\* the constructor's agent_piece and flip_observation, which no method
\* assigns; each call's record names them.  opponent_policy is
\* random_policy, the default.

\* random_policy(board, rng): the exception raised; rng.choice raises
\* ValueError on an empty list
random_policy_raises(b) ==
    IF get_legal_moves_asserts(b) THEN "AssertionError"
    ELSE IF get_legal_moves(b) = {} THEN "ValueError"
    ELSE "none"

\* random_policy(board, rng): the positions rng.choice may give
random_policy(b) == get_legal_moves(b)

\* _flip_board_in_obs(obs): X and O are swapped in obs["board"]
flip_board_in_obs(obs) ==
    [ obs EXCEPT !.board =
        { << entry[1], IF entry[2] = X THEN O
                       ELSE IF entry[2] = O THEN X ELSE entry[2] >> :
            entry \in @ } ]

\* the observation reset and step hand on: flipped for an agent playing O
\* when flip_observation is set
agent_observation(obs, agent_piece, flip_observation) ==
    IF flip_observation /\ agent_piece = O THEN flip_board_in_obs(obs) ELSE obs

\* the positions the opponent's policy may give on board b when asked is
\* true; None when the policy is not called or raises
opponent_positions(b, asked) ==
    IF asked /\ random_policy_raises(b) = "none" THEN random_policy(b)
    ELSE {None}

\* SelfPlayWrapper.reset(), given the result first of the environment's
\* reset() and, when the opponent moves, the result second of
\* step(opp_act): the board afterwards, the exception raised, what is
\* returned and the actions applied to the board
self_play_reset(first, agent_piece, flip_observation, second, opp_act) ==
    IF first.raised # "none"
    THEN [ state |-> first.state, raised |-> first.raised,
           returned |-> << >>, applied |-> << >> ]
    ELSE IF first.state.current_player # agent_piece /\ ~ game_over(first.state)
    THEN IF random_policy_raises(first.state) # "none"
         THEN [ state |-> first.state,
                raised |-> random_policy_raises(first.state),
                returned |-> << >>, applied |-> << >> ]
         ELSE IF second.raised # "none"
         THEN [ state |-> second.state, raised |-> second.raised,
                returned |-> << >>,
                applied |-> IF second.raised = "AttributeError"
                            THEN << opp_act >> ELSE << >> ]
         ELSE [ state |-> second.state, raised |-> "none",
                returned |-> << [ observation |->
                                      agent_observation(
                                          second.returned[1].observation,
                                          agent_piece, flip_observation),
                                  info |-> second.returned[1].info ] >>,
                applied |-> << opp_act >> ]
    ELSE [ state |-> first.state, raised |-> "none",
           returned |-> << [ observation |->
                                 agent_observation(first.returned[1].observation,
                                                   agent_piece, flip_observation),
                             info |-> first.returned[1].info ] >>,
           applied |-> << >> ]

\* SelfPlayWrapper.step(action) on board b, given the result first of
\* env.step(action) and, when the opponent moves, the result second of
\* env.step(opp_pos.board_id)
self_play_step(b, agent_piece, flip_observation, first, action, second, opp_act) ==
    IF b.current_player # agent_piece
    THEN [ state |-> b, raised |-> "ValueError", returned |-> << >>,
           applied |-> << >> ]
    ELSE IF first.raised # "none"
    THEN [ state |-> first.state, raised |-> first.raised, returned |-> << >>,
           applied |-> IF first.raised = "AttributeError" THEN << action >>
                       ELSE << >> ]
    ELSE IF /\ ~ (first.returned[1].terminated \/ first.returned[1].truncated)
            /\ first.state.current_player # agent_piece
    THEN IF random_policy_raises(first.state) # "none"
         THEN [ state |-> first.state,
                raised |-> random_policy_raises(first.state),
                returned |-> << >>, applied |-> << action >> ]
         ELSE IF second.raised # "none"
         THEN [ state |-> second.state, raised |-> second.raised,
                returned |-> << >>,
                applied |-> IF second.raised = "AttributeError"
                            THEN << action, opp_act >> ELSE << action >> ]
         ELSE [ state |-> second.state, raised |-> "none",
                returned |-> << [ observation |->
                                      agent_observation(
                                          second.returned[1].observation,
                                          agent_piece, flip_observation),
                                  reward |-> first.returned[1].reward
                                             - second.returned[1].reward,
                                  terminated |-> second.returned[1].terminated,
                                  truncated |-> second.returned[1].truncated,
                                  info |-> second.returned[1].info ] >>,
                applied |-> << action, opp_act >> ]
    ELSE [ state |-> first.state, raised |-> "none",
           returned |-> << [ observation |->
                                 agent_observation(first.returned[1].observation,
                                                   agent_piece, flip_observation),
                             reward |-> first.returned[1].reward,
                             terminated |-> first.returned[1].terminated,
                             truncated |-> first.returned[1].truncated,
                             info |-> first.returned[1].info ] >>,
           applied |-> << action >> ]

\* SelfPlayWrapper(env, agent_piece, flip_observation = ...) around an
\* environment whose board is new or has been played on
InitSelfPlay ==
    /\ \E g \in 1 .. Len(Games) : \E k \in Cuts(Games[g]) :
          /\ Replayable(Games[g], k)
          /\ boards = [id \in {"orig"} |-> Recorded(Games[g], k)]
          /\ moves = [id \in {"orig"} |-> k]
          /\ history = [id \in {"orig"} |-> SubSeq(Games[g], 1, k)]
    /\ \E agent_piece \in {X, O}, flip_observation \in BOOLEAN :
          call = [op |-> "init", id |-> "orig", agent_piece |-> agent_piece,
                  flip_observation |-> flip_observation]
    /\ raised = "none"
    /\ steps = 0
    /\ arrays = [id \in {"orig"} |-> "orig"]

\* SelfPlayWrapper.reset(): player is drawn from np_random by the
\* environment's reset
SelfPlayReset(player) ==
    /\ steps < MaxSteps
    /\ \E first \in {env_reset(boards["orig"], player)} :
          \E opp_pos \in opponent_positions(first.state,
                             /\ first.raised = "none"
                             /\ first.state.current_player # call.agent_piece
                             /\ ~ game_over(first.state)) :
             \E r \in { self_play_reset(first, call.agent_piece,
                            call.flip_observation,
                            IF opp_pos = None THEN first
                            ELSE env_step(first.state, board_id(opp_pos)),
                            IF opp_pos = None THEN None ELSE board_id(opp_pos)) } :
                /\ boards' = written("orig", r.state)
                /\ raised' = r.raised
                /\ call' = [op |-> "SelfPlayWrapper.reset", id |-> "orig",
                            agent_piece |-> call.agent_piece,
                            flip_observation |-> call.flip_observation,
                            player |-> player, returned |-> r.returned]
                /\ moves' = [moves EXCEPT !["orig"] = Len(r.applied)]
                /\ history' = [history EXCEPT !["orig"] = r.applied]
    /\ steps' = steps + 1
    /\ UNCHANGED arrays

\* SelfPlayWrapper.step(action).  The calls that raise the same exception
\* with nothing applied are one step, as in EnvStep.
SelfPlayStep ==
    /\ \E over \in {game_over(boards["orig"])},
          asserts \in {get_legal_moves_asserts(boards["orig"])},
          legal_moves \in {get_legal_moves(boards["orig"])} :
          \E action \in EnvActions :
             \E first \in { env_step_raising(boards["orig"], action,
                                env_step_raises(over, asserts, legal_moves,
                                                action)) } :
                \E opp_pos \in opponent_positions(first.state,
                                   /\ boards["orig"].current_player
                                         = call.agent_piece
                                   /\ first.raised = "none"
                                   /\ ~ ( first.returned[1].terminated
                                          \/ first.returned[1].truncated )
                                   /\ first.state.current_player
                                         # call.agent_piece) :
                   \E r \in { self_play_step(boards["orig"], call.agent_piece,
                                  call.flip_observation, first, action,
                                  IF opp_pos = None THEN first
                                  ELSE env_step(first.state, board_id(opp_pos)),
                                  IF opp_pos = None THEN None
                                  ELSE board_id(opp_pos)) } :
                      /\ r.applied # << >> => steps < MaxSteps
                      /\ r.applied = << >> =>
                            action = CHOOSE a \in EnvActions :
                                        self_play_step(boards["orig"],
                                            call.agent_piece,
                                            call.flip_observation,
                                            env_step_raising(boards["orig"], a,
                                                env_step_raises(over, asserts,
                                                    legal_moves, a)),
                                            a, first, None).raised = r.raised
                      /\ boards' = written("orig", r.state)
                      /\ raised' = r.raised
                      /\ call' = [op |-> "SelfPlayWrapper.step", id |-> "orig",
                                  agent_piece |-> call.agent_piece,
                                  flip_observation |-> call.flip_observation,
                                  action |-> action, returned |-> r.returned]
                      /\ moves' = [moves EXCEPT !["orig"] = @ + Len(r.applied)]
                      /\ history' = [history EXCEPT !["orig"] = @ \o r.applied]
                      /\ steps' = steps + (IF r.applied = << >> THEN 0 ELSE 1)
    /\ UNCHANGED arrays

NextSelfPlay ==
    \/ SelfPlayStep
    \/ \E player \in {X, O} : SelfPlayReset(player)

SpecSelfPlay == InitSelfPlay /\ [][NextSelfPlay]_vars

\* ---------------------------------------------------------------- C37
\* C37: SelfPlayWrapper, for agent_piece X and O: after reset() and after
\* every step() that leaves the game in play, current_player is
\* agent_piece; each step() applies the agent's move and then at most one
\* opponent move; the reward returned is +1 if the agent's move won the
\* game, -1 if the opponent's reply won it, and 0 otherwise.
C37_SelfPlayTurnsAndReward ==
    [][ \A before \in {boards["orig"]}, after \in {boards'["orig"]} :
          /\ call'.op = "SelfPlayWrapper.reset" =>
                /\ ~ game_over(after)
                /\ after.current_player = call'.agent_piece
          /\ ( /\ call'.op = "SelfPlayWrapper.step"
               /\ raised' \notin Exceptions )
             => \A agent \in {make_move_state(before, call'.action, "none")} :
                   /\ before.current_player = call'.agent_piece
                   /\ cell(agent, call'.action) = call'.agent_piece
                   /\ \/ after = agent
                      \/ \E reply \in get_legal_moves(agent) :
                            /\ ~ game_over(agent)
                            /\ after = make_move_state(agent, reply, "none")
                   /\ ~ game_over(after) =>
                         after.current_player = call'.agent_piece
                   /\ \A i \in 1 .. Len(call'.returned) :
                         /\ call'.returned[i].terminated = game_over(after)
                         /\ call'.returned[i].reward =
                               ( IF game_over(agent)
                                    /\ winner(agent) = call'.agent_piece THEN 1
                                 ELSE IF game_over(after)
                                    /\ winner(after) = Opponent(call'.agent_piece)
                                 THEN 0 - 1
                                 ELSE 0 ) ]_vars
====
